---- MODULE Spec2Model ----
(***************************************************************************)
(* State-machine model of rev.py: the AnswerPatternAnalyzer pipeline       *)
(* (validate_folder_structure, load_documents, the iterative extraction    *)
(* with rolling context, synthesize_patterns, generate_rubric,             *)
(* export_reports) and main, which sequences them.                         *)
(*                                                                         *)
(* JSON values coming back from the language model are modelled by their   *)
(* type tag and the part of their content the code looks at:               *)
(*   [t |-> "absent"]  the key is missing from its dict                    *)
(*   [t |-> "str", s |-> label, n |-> number of characters]                *)
(*   [t |-> "list", l |-> sequence of items]                               *)
(*   [t |-> "num"]     a JSON number (neither list, str nor dict)          *)
(* List items are tokens; the tokens of NonStrItems stand for list         *)
(* elements that are not Python str (str.join raises TypeError on them).   *)
(***************************************************************************)
EXTENDS Integers, Sequences, FiniteSets, TLC

\* ------------------------------------------------------------------ bounds
MaxFiles == 3
MaxDocs == 5
MaxAnswers == 3

\* ------------------------------------------------------- program constants
ContextWindow == 3
KeyPointsShown == 3
SummaryChars == 200
NumQuestions == 3
TopConcepts == 10
ExampleChars == 500
MaxExamples == 6
ReportConcepts == 3

Min(a, b) == IF a < b THEN a ELSE b

Take(s, k) == SubSeq(s, 1, Min(k, Len(s)))

LastN(s, k) == SubSeq(s, Len(s) - Min(k, Len(s)) + 1, Len(s))

\* ------------------------------------------------------------- JSON values
Absent == [t |-> "absent", l |-> <<>>, s |-> "", n |-> 0]

JStr(label, chars) == [t |-> "str", l |-> <<>>, s |-> label, n |-> chars]

JNum == [t |-> "num", l |-> <<>>, s |-> "", n |-> 0]

JList(items) == [t |-> "list", l |-> items, s |-> "", n |-> 0]

NonStrItems == {"#1", "#2"}

IsStrItem(x) == x \notin NonStrItems

\* str.join(items): raises TypeError iff some item is not a str
JoinRaises(items) == \E i \in 1..Len(items) : ~IsStrItem(items[i])

\* the three question keys, f'pregunta_{q_num}' for q_num in range(1, 4)
Questions == 1..NumQuestions

QKey(q) == "pregunta_" \o ToString(q)

\* ----------------------------------------------------------- answer values
\* The value stored under one key of an extraction response.  t = "dict": a
\* JSON object with the fields f; any other t: not a dict (f is unused).
AnswerFields ==
    {"respuesta_completa", "key_points", "conceptos_mencionados",
     "longitud_caracteres", "calidad_estimada"}

NoFields == [k \in AnswerFields |-> Absent]

Answer(kp, cm, cal, resp) ==
    [t |-> "dict",
     f |-> [respuesta_completa |-> resp, key_points |-> kp,
            conceptos_mencionados |-> cm, longitud_caracteres |-> JNum,
            calidad_estimada |-> cal]]

NonDict(tag) == [t |-> tag, f |-> NoFields]

IsDict(a) == a.t = "dict"

\* keys of the response object, in the order the prompt asks for them
ResultKeys == <<"pregunta_1", "pregunta_2", "pregunta_3", "observaciones_generales">>

Result(a1, a2, a3, obs) ==
    [pregunta_1 |-> a1, pregunta_2 |-> a2, pregunta_3 |-> a3,
     observaciones_generales |-> obs]

HasKey(result, k) == result[k].t # "absent"

\* list(result.items()): the keys present, in order
RECURSIVE PresentKeysFrom(_, _)
PresentKeysFrom(result, i) ==
    IF i > Len(ResultKeys) THEN <<>>
    ELSE (IF HasKey(result, ResultKeys[i]) THEN <<ResultKeys[i]>> ELSE <<>>)
         \o PresentKeysFrom(result, i + 1)

PresentKeys(result) == PresentKeysFrom(result, 1)

\* ------------------------------------------- language-model responses (mock)
\* What one chat.completions.create call can do: raise, return text that
\* json.loads rejects, return JSON that is no object, or return an object.
EmptyResult == Result(NonDict("absent"), NonDict("absent"), NonDict("absent"), NonDict("absent"))

Raises == [kind |-> "raise", body |-> EmptyResult]

BadJson == [kind |-> "badjson", body |-> EmptyResult]

NonObject == [kind |-> "nonobject", body |-> EmptyResult]

Object(result) == [kind |-> "object", body |-> result]

Obs == NonDict("str")

Alta == JStr("alta", 4)

Media == JStr("media", 5)

Baja == JStr("baja", 4)

Text == JStr("respuesta", 600)

\* well formed: all three questions, quality alta / media / baja
GoodA ==
    Object(Result(Answer(JList(<<"k1", "k2", "k3", "k4">>), JList(<<"c1", "c2">>), Alta, Text),
                  Answer(JList(<<"k5">>), JList(<<"c2", "c3">>), Media, Text),
                  Answer(JList(<<"k6", "k7">>), JList(<<"c1">>), Baja, Text), Obs))

GoodB ==
    Object(Result(Answer(JList(<<"k2", "k1">>), JList(<<"c2", "c1">>), Media, Text),
                  Answer(JList(<<"k5", "k8">>), JList(<<"c3">>), Alta, Text),
                  Answer(JList(<<"k9">>), JList(<<"c4", "c1">>), Media, Text), Obs))

\* a concept listed twice in one answer; a free-text quality label
Repeats ==
    Object(Result(Answer(JList(<<"k1">>), JList(<<"c1", "c1", "c3">>), Alta, Text),
                  Answer(JList(<<"k5">>), JList(<<"c3", "c3">>), JStr("excelente", 9), Text),
                  Answer(JList(<<"k6">>), JList(<<>>), Baja, Text), Obs))

\* partially shaped: key_points as text, key_points empty, fields omitted
Partial ==
    Object(Result(Answer(JStr("resumen", 250), JList(<<"c5">>), Absent, Text),
                  Answer(JList(<<>>), JNum, Media, Absent),
                  Answer(Absent, Absent, Alta, Text), NonDict("absent")))

\* key_points with an element that is not a str, beyond and within the first 3
KeyPointsNonStr ==
    Object(Result(Answer(JList(<<"k1", "k2", "k3", "#1">>), JList(<<"c1">>), Media, Text),
                  Answer(JList(<<"k5", "#2">>), JList(<<"c2">>), Media, Text),
                  Answer(JNum, JList(<<"c1">>), Baja, Text), Obs))

\* conceptos_mencionados with an element that is not a str
ConceptsNonStr ==
    Object(Result(Answer(JList(<<"k1">>), JList(<<"c1", "#1">>), Alta, Text),
                  Answer(JList(<<"k5">>), JList(<<"c2">>), Media, Text),
                  Answer(JList(<<"k6">>), JList(<<"c1">>), Baja, Text), Obs))

\* a question key mapped to a string, another question key missing
QuestionNonDict ==
    Object(Result(NonDict("str"),
                  NonDict("absent"),
                  Answer(JList(<<"k6">>), JList(<<"c1">>), Media, Text), Obs))

\* calidad_estimada is a list (unhashable)
QualityList ==
    Object(Result(Answer(JList(<<"k1">>), JList(<<"c1">>), Alta, Text),
                  Answer(JList(<<"k5">>), JList(<<"c2">>), JList(<<"alta">>), Text),
                  Answer(JList(<<"k6">>), JList(<<"c1">>), Baja, Text), Obs))

\* respuesta_completa is a number, in an answer rated alta
AnswerTextNum ==
    Object(Result(Answer(JList(<<"k1">>), JList(<<"c1">>), Media, Text),
                  Answer(JList(<<"k5">>), JList(<<"c2">>), Alta, JNum),
                  Answer(JList(<<"k6">>), JList(<<"c1">>), Baja, Text), Obs))

Responses ==
    {Raises, BadJson, NonObject, GoodA, GoodB, Repeats, Partial, KeyPointsNonStr,
     ConceptsNonStr, QuestionNonDict, QualityList, AnswerTextNum}

\* --------------------------------------------------------- rolling context
\* One line of the context of one key of one earlier analysis (lines 133-142):
\* <<>> when the code adds no line.
ContextLines(key, answer) ==
    IF IsDict(answer) /\ answer.f.key_points.t # "absent"
    THEN LET key_points == answer.f.key_points IN
         IF key_points.t = "list" /\ Len(key_points.l) > 0
         THEN <<[key |-> key, kind |-> "points",
                 items |-> Take(key_points.l, KeyPointsShown), n |-> 0]>>
         ELSE IF key_points.t = "str"
         THEN <<[key |-> key, kind |-> "summary", items |-> <<>>,
                 n |-> Min(key_points.n, SummaryChars)]>>
         ELSE <<>>
    ELSE <<[key |-> key, kind |-> "placeholder", items |-> <<>>, n |-> 0]>>

RECURSIVE LinesOf(_, _)
LinesOf(answers, keys) ==
    IF keys = <<>> THEN <<>>
    ELSE ContextLines(Head(keys), answers[Head(keys)]) \o LinesOf(answers, Tail(keys))

\* the block of one earlier analysis; doc is the position of the document it
\* came from (history, carried with the entry)
ContextBlock(prev) ==
    [student_name |-> prev.student_name, doc |-> prev.doc,
     lines |-> LinesOf(prev.answers, PresentKeys(prev.answers))]

\* mutant of ContextOf: the [-3:] slice forgotten
ContextOfAll(extracted) == [i \in 1..Len(extracted) |-> ContextBlock(extracted[i])]

\* for prev in self.extracted_answers[-3:]
ContextOf(extracted) ==
    LET recent == LastN(extracted, ContextWindow)
    IN  [i \in 1..Len(recent) |-> ContextBlock(recent[i])]

\* mutant of ContextRaises: answer['key_points'] read without the membership
\* test of line 135
ContextRaisesOnMissing(extracted) ==
    LET recent == LastN(extracted, ContextWindow)
        ctx == ContextOf(extracted)
    IN  \/ \E i \in 1..Len(ctx) : \E j \in 1..Len(ctx[i].lines) :
              JoinRaises(ctx[i].lines[j].items)
        \/ \E i \in 1..Len(recent) : \E q \in Questions :
              /\ IsDict(recent[i].answers[QKey(q)])
              /\ recent[i].answers[QKey(q)].f.key_points.t = "absent"

\* ', '.join(key_points[:3]) raises TypeError: outside the try of line 199
ContextRaises(extracted) ==
    LET ctx == ContextOf(extracted)
    IN  \E i \in 1..Len(ctx) : \E j \in 1..Len(ctx[i].lines) :
            JoinRaises(ctx[i].lines[j].items)

\* ------------------------------------------- extract_answers_from_document
\* the console summary of lines 226-241 raises inside the try
SummaryRaises(result) ==
    \E q \in Questions :
        LET a == result[QKey(q)] IN
        /\ IsDict(a)
        /\ a.f.conceptos_mencionados.t = "list"
        /\ JoinRaises(a.f.conceptos_mencionados.l)

\* TRUE iff the try block of lines 199-253 ends in its except clause
ExtractionFails(r) ==
    \/ r.kind \in {"raise", "badjson", "nonobject"}
    \/ SummaryRaises(r.body)

\* ------------------------------------------------------ synthesize_patterns
\* the answer is used for question q iff (line 286)
\*   q_key in doc['answers'] and isinstance(doc['answers'][q_key], dict)
WellFormed(doc, q) == IsDict(doc.answers[QKey(q)])

\* all_concepts of question q after the loop of lines 285-299
RECURSIVE AllConcepts(_, _)
AllConcepts(extracted, q) ==
    IF extracted = <<>> THEN <<>>
    ELSE LET doc == Head(extracted)
             conceptos == doc.answers[QKey(q)].f.conceptos_mencionados
         IN  (IF WellFormed(doc, q) /\ conceptos.t = "list" THEN conceptos.l ELSE <<>>)
             \o AllConcepts(Tail(extracted), q)

\* all_key_points of question q
RECURSIVE AllKeyPoints(_, _)
AllKeyPoints(extracted, q) ==
    IF extracted = <<>> THEN <<>>
    ELSE LET doc == Head(extracted)
             key_points == doc.answers[QKey(q)].f.key_points
         IN  (IF WellFormed(doc, q) /\ key_points.t = "list" THEN key_points.l ELSE <<>>)
             \o AllKeyPoints(Tail(extracted), q)

\* answer_data.get('calidad_estimada', 'N/A') as a Counter key
QualityLabel(answer) ==
    LET cal == answer.f.calidad_estimada IN
    IF cal.t = "absent" THEN "N/A"
    ELSE IF cal.t = "str" THEN cal.s
    ELSE "<num>"

\* a list is unhashable: quality_counts[...] += 1 raises TypeError (line 299)
Unhashable(answer) == answer.f.calidad_estimada.t = "list"

\* mutant of QualityCounts: the isinstance test of line 286 left out, so that
\* an answer that is no dict counts under the default label
QualityCountsAnyShape(extracted, q) ==
    LET used == {i \in 1..Len(extracted) : extracted[i].answers[QKey(q)].t # "absent"}
        labels == {QualityLabel(extracted[i].answers[QKey(q)]) : i \in used}
    IN  [lab \in labels |->
            Cardinality({i \in used : QualityLabel(extracted[i].answers[QKey(q)]) = lab})]

\* dict(quality_counts): label -> number of well-formed answers carrying it
QualityCounts(extracted, q) ==
    LET used == {i \in 1..Len(extracted) : WellFormed(extracted[i], q)}
        labels == {QualityLabel(extracted[i].answers[QKey(q)]) : i \in used}
    IN  [lab \in labels |->
            Cardinality({i \in used : QualityLabel(extracted[i].answers[QKey(q)]) = lab})]

\* Counter(all_concepts)[c]
Count(s, c) == Cardinality({i \in 1..Len(s) : s[i] = c})

\* the keys of Counter(s) in insertion order: first occurrences
RECURSIVE FirstSeen(_, _)
FirstSeen(s, seen) ==
    IF s = <<>> THEN <<>>
    ELSE IF Head(s) \in seen THEN FirstSeen(Tail(s), seen)
    ELSE <<Head(s)>> \o FirstSeen(Tail(s), seen \cup {Head(s)})

Without(s, i) == SubSeq(s, 1, i - 1) \o SubSeq(s, i + 1, Len(s))

\* mutant of RankFirst: among equal counts the one inserted last
RankLastOfTies(cands, s) ==
    CHOOSE i \in 1..Len(cands) :
        /\ \A j \in 1..Len(cands) : Count(s, cands[j]) <= Count(s, cands[i])
        /\ \A j \in (i + 1)..Len(cands) : Count(s, cands[j]) < Count(s, cands[i])

\* which of the candidates comes first in the ranking: the highest count, and
\* among equal counts the one inserted first (heapq.nlargest is stable)
RankFirst(cands, s) ==
    CHOOSE i \in 1..Len(cands) :
        /\ \A j \in 1..Len(cands) : Count(s, cands[j]) <= Count(s, cands[i])
        /\ \A j \in 1..(i - 1) : Count(s, cands[j]) < Count(s, cands[i])

RECURSIVE Ranked(_, _, _)
Ranked(cands, s, k) ==
    IF k = 0 \/ cands = <<>> THEN <<>>
    ELSE LET i == RankFirst(cands, s)
         IN  <<[concept |-> cands[i], freq |-> Count(s, cands[i])]>>
             \o Ranked(Without(cands, i), s, k - 1)

\* Counter(s).most_common(k), as the ordered pairs (concept, freq)
MostCommon(s, k) == Ranked(FirstSeen(s, {}), s, k)

\* (freq / n) * 100 printed with one decimal (line 312-313), in tenths of a
\* percent; for n < 16 no value lies half way between two tenths
PercentTenths(freq, n) == (2000 * freq + n) \div (2 * n)

\* the lines printed under "CONCEPTOS MAS MENCIONADOS" for question q
ConceptReport(extracted, q) ==
    LET top == MostCommon(AllConcepts(extracted, q), TopConcepts)
    IN  [i \in 1..Len(top) |->
            [concept |-> top[i].concept, freq |-> top[i].freq,
             percentage |-> PercentTenths(top[i].freq, Len(extracted))]]

\* self.pattern_analysis[q_key] (lines 316-322)
PatternStats(extracted, q) ==
    [pregunta |-> q,
     total_respuestas |-> Len(extracted),
     conceptos_frecuentes |-> MostCommon(AllConcepts(extracted, q), TopConcepts),
     puntos_clave_comunes |-> AllKeyPoints(extracted, q),
     distribucion_calidad |-> QualityCounts(extracted, q)]

\* mutant of SynthesisRaises: the share 1 / len(self.extracted_answers)
\* computed once before the loop over most_common(10)
SynthesisRaisesEager(extracted, q) ==
    \/ \E i \in 1..Len(extracted) :
          WellFormed(extracted[i], q) /\ Unhashable(extracted[i].answers[QKey(q)])
    \/ Len(extracted) = 0

\* question q raises in the loop of lines 285-299, or divides by zero in 312
SynthesisRaises(extracted, q) ==
    \/ \E i \in 1..Len(extracted) :
          WellFormed(extracted[i], q) /\ Unhashable(extracted[i].answers[QKey(q)])
    \/ Len(extracted) = 0 /\ AllConcepts(extracted, q) # <<>>

\* the questions synthesize_patterns completes before it raises (all if none)
RECURSIVE Completed(_, _)
Completed(extracted, q) ==
    IF q > NumQuestions \/ SynthesisRaises(extracted, q) THEN q - 1
    ELSE Completed(extracted, q + 1)

\* ---------------------------------------------------------- rubric values
\* The rubric as json.loads returns it.  t = "dict": an object whose question
\* keys hold q[1..3] and which has notas_generales iff notas; t = "num": a
\* JSON number; t = "list": a JSON array (of numbers).
\* A question entry has t = "absent" (key missing), "str" (not an object) or
\* "dict"; its list fields have t = "absent", "num", or "list" with l the
\* kinds of the elements ("dict" or "str").
NoElements == [t |-> "absent", l |-> <<>>]

Elements(kinds) == [t |-> "list", l |-> kinds]

ElementsNum == [t |-> "num", l |-> <<>>]

RubricQ(obligatorios, deseables, criterios, puntaje) ==
    [t |-> "dict", elementos_obligatorios |-> obligatorios,
     elementos_deseables |-> deseables, criterios_calidad |-> criterios,
     puntaje_total |-> puntaje]

NoRubricQ ==
    [t |-> "absent", elementos_obligatorios |-> NoElements,
     elementos_deseables |-> NoElements, criterios_calidad |-> NoElements,
     puntaje_total |-> FALSE]

StrRubricQ == [NoRubricQ EXCEPT !.t = "str"]

RubricDict(q1, q2, q3, notas) == [t |-> "dict", q |-> <<q1, q2, q3>>, notas |-> notas]

\* self.rubric = {} (line 34)
EmptyRubric == RubricDict(NoRubricQ, NoRubricQ, NoRubricQ, FALSE)

RubricNum == [EmptyRubric EXCEPT !.t = "num"]

RubricArray == [EmptyRubric EXCEPT !.t = "list"]

FullQ == RubricQ(Elements(<<"dict", "dict">>), Elements(<<"dict">>), Elements(<<"str">>), TRUE)

RubricValue(v) == [kind |-> "object", rubric |-> v]

RubricResponses ==
    {[kind |-> "raise", rubric |-> EmptyRubric],
     [kind |-> "badjson", rubric |-> EmptyRubric],
     RubricValue(RubricDict(FullQ, FullQ, FullQ, TRUE)),
     RubricValue(EmptyRubric),
     \* partial: a question key absent, fields absent
     RubricValue(RubricDict(FullQ, NoRubricQ,
                            RubricQ(NoElements, NoElements, NoElements, FALSE), FALSE)),
     \* unexpected shapes
     RubricValue(RubricDict(StrRubricQ, FullQ, FullQ, TRUE)),
     RubricValue(RubricDict(FullQ, RubricQ(Elements(<<"dict", "str">>), NoElements,
                                           NoElements, TRUE), FullQ, FALSE)),
     RubricValue(RubricDict(FullQ, FullQ,
                            RubricQ(Elements(<<"dict">>), Elements(<<>>), ElementsNum, TRUE),
                            TRUE)),
     RubricValue(RubricNum),
     RubricValue(RubricArray)}

\* for elem in <list field>: elem.get(...) raises when the field is not
\* iterable or an element is not a dict
ElementsRaise(el) ==
    \/ el.t = "num"
    \/ el.t = "list" /\ \E i \in 1..Len(el.l) : el.l[i] # "dict"

\* if rubric_data.get('elementos_deseables'): a non-empty list, a number
Truthy(el) == el.t = "num" \/ (el.t = "list" /\ Len(el.l) > 0)

\* the per-question block raises (lines 419-431, and 503-526 with the
\* criterios_calidad loop of line 522)
QuestionRaises(rq, withCriteria) ==
    \/ rq.t = "str"
    \/ /\ rq.t = "dict"
       /\ \/ ElementsRaise(rq.elementos_obligatorios)
          \/ Truthy(rq.elementos_deseables) /\ ElementsRaise(rq.elementos_deseables)
          \/ withCriteria /\ rq.criterios_calidad.t = "num"

\* 'q_key in self.rubric' raises on a number; otherwise the blocks of the
\* keys present may raise
RubricRaises(rubric, withCriteria) ==
    \/ rubric.t = "num"
    \/ rubric.t = "dict" /\ \E q \in Questions : QuestionRaises(rubric.q[q], withCriteria)

\* ---------------------------------------------------------- generate_rubric
\* the collection loop of lines 341-350 raises (it runs before the try)
ExamplesRaise(extracted) ==
    \E i \in 1..Len(extracted) : \E q \in Questions :
        LET a == extracted[i].answers[QKey(q)] IN
        /\ a.t # "absent"
        /\ \/ ~IsDict(a)
           \/ /\ a.f.calidad_estimada = Alta
              /\ a.f.respuesta_completa.t = "num"

RECURSIVE ExamplesFrom(_, _, _)
ExamplesFrom(extracted, i, q) ==
    IF i > Len(extracted) THEN <<>>
    ELSE IF q > NumQuestions THEN ExamplesFrom(extracted, i + 1, 1)
    ELSE LET a == extracted[i].answers[QKey(q)]
         IN  (IF IsDict(a) /\ a.f.calidad_estimada = Alta
              THEN <<[pregunta |-> q, estudiante |-> extracted[i].student_name,
                      chars |-> Min(a.f.respuesta_completa.n, ExampleChars)]>>
              ELSE <<>>)
             \o ExamplesFrom(extracted, i, q + 1)

\* high_quality_examples[:6]
HighQualityExamples(extracted) == Take(ExamplesFrom(extracted, 1, 1), MaxExamples)

\* ----------------------------------------------------------- export_reports
\* one row of pattern_report (lines 445-452)
PatternRow(pattern) ==
    LET dist == pattern.distribucion_calidad
        get(label) == IF label \in DOMAIN dist THEN dist[label] ELSE 0
    IN  [Pregunta |-> pattern.pregunta,
         TotalRespuestas |-> pattern.total_respuestas,
         ConceptosMasFrecuentes |-> Take(pattern.conceptos_frecuentes, ReportConcepts),
         CalidadAlta |-> get("alta"),
         CalidadMedia |-> get("media"),
         CalidadBaja |-> get("baja")]

\* the rows of student_details (lines 460-483)
RECURSIVE StudentRows(_, _, _)
StudentRows(extracted, i, q) ==
    IF i > Len(extracted) THEN <<>>
    ELSE IF q > NumQuestions THEN StudentRows(extracted, i + 1, 1)
    ELSE LET a == extracted[i].answers[QKey(q)]
             conceptos == IF a.f.conceptos_mencionados.t = "list"
                          THEN a.f.conceptos_mencionados.l ELSE <<>>
             key_points == IF a.f.key_points.t = "list" THEN a.f.key_points.l ELSE <<>>
         IN  (IF IsDict(a)
              THEN <<[Estudiante |-> extracted[i].student_name, doc |-> extracted[i].doc,
                      Pregunta |-> q,
                      ConceptosMencionados |-> conceptos,
                      NumPuntosClave |-> Len(key_points),
                      Calidad |-> QualityLabel(a)]>>
              ELSE <<>>)
             \o StudentRows(extracted, i, q + 1)

\* ', '.join(conceptos) of line 479 raises
StudentRowsRaise(extracted) ==
    \E i \in 1..Len(extracted) : \E q \in Questions :
        LET a == extracted[i].answers[QKey(q)] IN
        IsDict(a) /\ a.f.conceptos_mencionados.t = "list"
                  /\ JoinRaises(a.f.conceptos_mencionados.l)

\* ------------------------------------------------------------- file system
\* The tree under folder_path: whether the path exists, where its .docx files
\* lie, and the files in the order rglob yields them.  A file is "ok",
\* "corrupt" (Document(file_path) raises) or "lock" (its name starts with ~$).
\*   flat:   no subfolder, every file directly under the root
\*   nested: student subfolders, every file directly in one of them
\*   deep:   student subfolders, every file one level further down
FileKinds == {"ok", "corrupt", "lock"}

Layouts == {"flat", "nested", "deep"}

SeqsUpTo(S, n) == UNION {[1..k -> S] : k \in 0..n}

FileSystems ==
    {[exists |-> FALSE, layout |-> "flat", files |-> <<>>]}
    \cup {[exists |-> TRUE, layout |-> lay, files |-> f] :
            lay \in Layouts, f \in SeqsUpTo(FileKinds, MaxFiles)}

\* file_path.parent.name of the i-th file
ParentName(tree, i) ==
    IF tree.layout = "flat" THEN "root"
    ELSE IF tree.layout = "nested" THEN "S" \o ToString((i + 1) \div 2)
    ELSE "inner"

RECURSIVE NotLockFrom(_, _)
NotLockFrom(tree, i) ==
    IF i > Len(tree.files) THEN <<>>
    ELSE (IF tree.files[i] # "lock" THEN <<i>> ELSE <<>>) \o NotLockFrom(tree, i + 1)

\* docx_files of load_documents (lines 84-85): the positions of the files
\* whose name does not start with ~$
DocxFiles(tree) == NotLockFrom(tree, 1)

\* validate_folder_structure (lines 36-77)
ValidFolderStructure(tree) ==
    IF ~tree.exists THEN FALSE
    ELSE IF tree.layout = "flat" THEN Len(tree.files) > 0
    ELSE IF tree.layout = "nested" THEN Len(DocxFiles(tree)) > 0
    ELSE FALSE

\* the Document entry of the file at position i (lines 97-102)
DocumentOf(tree, i) == [filename |-> i, student_name |-> ParentName(tree, i)]

\* --------------------------------------------------------------------- state
VARIABLES
    fs,                 \* the directory tree at folder_path
    client,             \* TRUE iff the module-level client is not None
    pc,                 \* where main is
    file_index,         \* position of the loop of load_documents in docx_files
    documents,          \* self.documents
    doc_index,          \* position of the loop of analyze_patterns_iteratively
    analysis,           \* what the last extract_answers_from_document returned
    extracted_answers,  \* self.extracted_answers
    pattern_analysis,   \* self.pattern_analysis
    concept_report,     \* the concept lines synthesize_patterns printed
    rubric,             \* self.rubric
    rubric_status,      \* how generate_rubric ended
    pattern_report,     \* rows written to 1_analisis_patrones.xlsx
    student_details,    \* rows written to 2_analisis_por_estudiante.xlsx
    log,                \* requests sent and files written, in order
    error               \* the exception that ended the run, and where it was raised

vars ==
    <<fs, client, pc, file_index, documents, doc_index, analysis, extracted_answers,
      pattern_analysis, concept_report, rubric, rubric_status, pattern_report,
      student_details, log, error>>

Event(ev, arg, ctx) == [ev |-> ev, arg |-> arg, ctx |-> ctx]

NoAnalysis == [doc |-> 0, result |-> "", cause |-> ""]

NoError == [type |-> "", at |-> ""]

\* an exception no handler catches: it leaves main
Uncaught(type, at) == [type |-> type, at |-> at]

\* AnswerPatternAnalyzer.__init__ (lines 29-34), before main reads the path
Fresh ==
    /\ file_index = 1
    /\ documents = <<>>
    /\ doc_index = 1
    /\ analysis = NoAnalysis
    /\ extracted_answers = <<>>
    /\ pattern_analysis = <<>>
    /\ concept_report = <<>>
    /\ rubric = EmptyRubric
    /\ rubric_status = "not_run"
    /\ pattern_report = <<>>
    /\ student_details = <<>>
    /\ log = <<>>
    /\ error = NoError

Init ==
    /\ fs \in FileSystems
    /\ client \in BOOLEAN
    /\ pc = "start"
    /\ Fresh

\* ---------------------------------------------------------------------- main
\* lines 553-555
MainCheckPath ==
    /\ pc = "start"
    /\ pc' = IF fs.exists THEN "validate" ELSE "returned"
    /\ UNCHANGED <<fs, client, file_index, documents, doc_index, analysis,
                   extracted_answers, pattern_analysis, concept_report, rubric,
                   rubric_status, pattern_report, student_details, log, error>>

\* lines 567-569
MainValidate ==
    /\ pc = "validate"
    /\ pc' = IF ValidFolderStructure(fs) THEN "load" ELSE "returned"
    /\ UNCHANGED <<fs, client, file_index, documents, doc_index, analysis,
                   extracted_answers, pattern_analysis, concept_report, rubric,
                   rubric_status, pattern_report, student_details, log, error>>

\* mutant of Loaded: a read error empties the list
LoadedOrReset(docs, tree, i) ==
    IF tree.files[i] = "ok" THEN Append(docs, DocumentOf(tree, i)) ELSE <<>>

\* what one iteration of the loop of load_documents leaves in self.documents
\* (lines 89-105): the entry appended, or nothing when the read raised
Loaded(docs, tree, i) ==
    IF tree.files[i] = "ok" THEN Append(docs, DocumentOf(tree, i)) ELSE docs

\* one iteration of the loop of load_documents
LoadFile ==
    /\ pc = "load"
    /\ file_index <= Len(DocxFiles(fs))
    /\ documents' = Loaded(documents, fs, DocxFiles(fs)[file_index])
    /\ file_index' = file_index + 1
    /\ UNCHANGED <<fs, client, pc, doc_index, analysis, extracted_answers,
                   pattern_analysis, concept_report, rubric, rubric_status,
                   pattern_report, student_details, log, error>>

\* mutant of MainCheckDocuments: the check of line 574 left out
MainCheckDocumentsSkipped ==
    /\ pc = "load"
    /\ file_index > Len(DocxFiles(fs))
    /\ pc' = "analyze"
    /\ UNCHANGED <<fs, client, file_index, documents, doc_index, analysis,
                   extracted_answers, pattern_analysis, concept_report, rubric,
                   rubric_status, pattern_report, student_details, log, error>>

\* the end of load_documents and the check of lines 574-576
MainCheckDocuments ==
    /\ pc = "load"
    /\ file_index > Len(DocxFiles(fs))
    /\ pc' = IF Len(documents) = 0 THEN "returned" ELSE "analyze"
    /\ UNCHANGED <<fs, client, file_index, documents, doc_index, analysis,
                   extracted_answers, pattern_analysis, concept_report, rubric,
                   rubric_status, pattern_report, student_details, log, error>>

\* --------------------------------------------- analyze_patterns_iteratively
\* the dict returned at lines 246-249; doc is the position of the document
AnalysisOf(docs, i, r) ==
    [student_name |-> docs[i].student_name, answers |-> r.body, doc |-> i]

\* which step of the try block sent it to the except clause
FailureCause(r) == IF r.kind # "object" THEN r.kind ELSE "summary"

\* mutant of Accumulate: insert(0, analysis) in place of append(analysis)
AccumulateFront(extracted, docs, i, r) ==
    IF ExtractionFails(r) THEN extracted ELSE <<AnalysisOf(docs, i, r)>> \o extracted

\* mutant of Accumulate: the result appended without the test of line 263
AccumulateAlways(extracted, docs, i, r) == Append(extracted, AnalysisOf(docs, i, r))

\* if analysis: self.extracted_answers.append(analysis)   (lines 263-264)
Accumulate(extracted, docs, i, r) ==
    IF ExtractionFails(r) THEN extracted ELSE Append(extracted, AnalysisOf(docs, i, r))

\* One iteration of the loop of line 261: extract_answers_from_document for the
\* document at doc_index, with the responses the service may give drawn from
\* R, and the append of its result.
ExtractStep(R) ==
    /\ pc = "analyze"
    /\ doc_index <= Len(documents)
    /\ IF ContextRaises(extracted_answers)
       THEN /\ pc' = "crashed"
            /\ error' = Uncaught("TypeError", "extract_answers_from_document")
            /\ UNCHANGED <<doc_index, analysis, extracted_answers, log>>
       ELSE /\ IF ~client
               THEN /\ analysis' = [doc |-> doc_index, result |-> "None", cause |-> "client"]
                    /\ UNCHANGED <<extracted_answers, log>>
               ELSE \E r \in R :
                    /\ log' = Append(log, Event("extract_request", doc_index,
                                                ContextOf(extracted_answers)))
                    /\ analysis' =
                         IF ExtractionFails(r)
                         THEN [doc |-> doc_index, result |-> "None", cause |-> FailureCause(r)]
                         ELSE [doc |-> doc_index, result |-> "dict", cause |-> ""]
                    /\ extracted_answers' = Accumulate(extracted_answers, documents, doc_index, r)
            /\ doc_index' = doc_index + 1
            /\ pc' = IF doc_index = Len(documents) THEN "synth" ELSE "analyze"
            /\ UNCHANGED error
    /\ UNCHANGED <<fs, client, file_index, documents, pattern_analysis, concept_report,
                   rubric, rubric_status, pattern_report, student_details>>

\* ------------------------------------------------------- the later stages
\* synthesize_patterns (lines 268-322), called at line 582
SynthesizePatterns ==
    /\ pc = "synth"
    /\ LET done == Completed(extracted_answers, 1) IN
       /\ pattern_analysis' = [q \in 1..done |-> PatternStats(extracted_answers, q)]
       /\ concept_report' = [q \in 1..done |-> ConceptReport(extracted_answers, q)]
       /\ log' = Append(log, Event("synthesize", done, <<>>))
       /\ IF done = NumQuestions
          THEN pc' = "rubric" /\ UNCHANGED error
          ELSE pc' = "crashed" /\
               error' = Uncaught(IF Len(extracted_answers) = 0 THEN "ZeroDivisionError"
                                 ELSE "TypeError", "synthesize_patterns")
    /\ UNCHANGED <<fs, client, file_index, documents, doc_index, analysis,
                   extracted_answers, rubric, rubric_status, pattern_report,
                   student_details>>

\* what the try block of lines 396-434 leaves in self.rubric
RubricAfter(old, r) == IF r.kind = "object" THEN r.rubric ELSE old

\* generate_rubric (lines 324-434), called at line 585
GenerateRubric(R) ==
    /\ pc = "rubric"
    /\ IF ExamplesRaise(extracted_answers)
       THEN /\ pc' = "crashed"
            /\ error' = Uncaught("AttributeError", "generate_rubric")
            /\ log' = Append(log, Event("generate_rubric", 0, <<>>))
            /\ UNCHANGED <<rubric, rubric_status>>
       ELSE /\ IF ~client
               THEN /\ rubric_status' = "no_client"
                    /\ log' = Append(log, Event("generate_rubric", 0, <<>>))
                    /\ UNCHANGED rubric
               ELSE \E r \in R :
                    /\ log' = log \o <<Event("generate_rubric", 0, <<>>),
                                       Event("rubric_request", 0,
                                             HighQualityExamples(extracted_answers))>>
                    /\ rubric' = RubricAfter(rubric, r)
                    /\ rubric_status' =
                         IF r.kind # "object" THEN r.kind
                         ELSE IF RubricRaises(r.rubric, FALSE) THEN "summary"
                         ELSE "ok"
            /\ pc' = "export"
            /\ UNCHANGED error
    /\ UNCHANGED <<fs, client, file_index, documents, doc_index, analysis,
                   extracted_answers, pattern_analysis, concept_report, pattern_report,
                   student_details>>

\* the files export_reports leaves, in the order it writes them: 1, then 2
\* unless building its rows raises, then 3 (json.dump of the rubric), then 4
\* (the text), which is left partial when rendering the rubric raises
FilesWritten(extracted, rub) ==
    <<Event("file", 1, <<>>)>>
    \o (IF StudentRowsRaise(extracted) THEN <<>>
        ELSE <<Event("file", 2, <<>>), Event("file", 3, <<>>),
               Event(IF RubricRaises(rub, TRUE) THEN "partial_file" ELSE "file", 4, <<>>)>>)

\* export_reports (lines 436-537), called at line 588
ExportReports ==
    /\ pc = "export"
    /\ pattern_report' = [q \in DOMAIN pattern_analysis |-> PatternRow(pattern_analysis[q])]
    /\ student_details' = IF StudentRowsRaise(extracted_answers) THEN <<>>
                          ELSE StudentRows(extracted_answers, 1, 1)
    /\ log' = log \o FilesWritten(extracted_answers, rubric)
    /\ IF StudentRowsRaise(extracted_answers)
       THEN pc' = "crashed" /\ error' = Uncaught("TypeError", "export_reports")
       ELSE IF RubricRaises(rubric, TRUE)
       THEN pc' = "crashed" /\ error' = Uncaught("AttributeError", "export_reports")
       ELSE pc' = "done" /\ UNCHANGED error
    /\ UNCHANGED <<fs, client, file_index, documents, doc_index, analysis,
                   extracted_answers, pattern_analysis, concept_report, rubric,
                   rubric_status>>

\* ----------------------------------------------------------- specifications
\* main, from the prompt for the path to its last line
Next ==
    \/ MainCheckPath
    \/ MainValidate
    \/ LoadFile
    \/ MainCheckDocuments
    \/ ExtractStep(Responses)
    \/ SynthesizePatterns
    \/ GenerateRubric(RubricResponses)
    \/ ExportReports

Spec == Init /\ [][Next]_vars

\* The extraction loop alone, from the state load_documents leaves when it
\* has read n documents (two per student folder) of a tree without lock or
\* corrupt files.
IterResponses == {Raises, BadJson, GoodA, GoodB, Partial, KeyPointsNonStr}

LoadedTree(n) == [exists |-> TRUE, layout |-> "nested", files |-> [i \in 1..n |-> "ok"]]

InitIter ==
    \E n \in 1..MaxDocs :
        /\ fs = LoadedTree(n)
        /\ client \in BOOLEAN
        /\ pc = "analyze"
        /\ file_index = n + 1
        /\ documents = [i \in 1..n |-> DocumentOf(LoadedTree(n), i)]
        /\ doc_index = 1
        /\ analysis = NoAnalysis
        /\ extracted_answers = <<>>
        /\ pattern_analysis = <<>>
        /\ concept_report = <<>>
        /\ rubric = EmptyRubric
        /\ rubric_status = "not_run"
        /\ pattern_report = <<>>
        /\ student_details = <<>>
        /\ log = <<>>
        /\ error = NoError

NextIter == ExtractStep(IterResponses)

SpecIter == InitIter /\ [][NextIter]_vars

\* synthesize_patterns as a function of extracted_answers: from the state the
\* extraction loop leaves when every document (at least one was loaded) got
\* one of these analyses, or when the only document's extraction failed.
Concepts(items) == Answer(JList(<<"k1">>), JList(items), Media, Text)

Wide1 ==
    Result(Concepts(<<"c1", "c2", "c3", "c4", "c5", "c6">>),
           Concepts(<<"c1", "c2">>), Concepts(<<"c1">>), Obs)

Wide2 ==
    Result(Concepts(<<"c7", "c8", "c9", "c10", "c11", "c12">>),
           Concepts(<<"c2", "c3">>), Concepts(<<"c2", "c1">>), Obs)

Wide3 ==
    Result(Concepts(<<"c12", "c3", "c12", "c9">>),
           Concepts(<<"c3", "c3", "c1">>), Concepts(<<>>), Obs)

SynthAnswers ==
    {Wide1, Wide2, Wide3, GoodA.body, Repeats.body, Partial.body, QualityList.body}

InitSynth ==
    \E answers \in SeqsUpTo(SynthAnswers, MaxAnswers) :
        LET n == IF Len(answers) = 0 THEN 1 ELSE Len(answers)
            entry(i) == [student_name |-> DocumentOf(LoadedTree(n), i).student_name,
                         answers |-> answers[i], doc |-> i]
            entries == [i \in 1..Len(answers) |-> entry(i)]
        IN  /\ fs = LoadedTree(n)
            /\ client = TRUE
            /\ pc = "synth"
            /\ file_index = n + 1
            /\ documents = [i \in 1..n |-> DocumentOf(LoadedTree(n), i)]
            /\ doc_index = n + 1
            /\ analysis = IF Len(answers) = 0
                          THEN [doc |-> n, result |-> "None", cause |-> "badjson"]
                          ELSE [doc |-> n, result |-> "dict", cause |-> ""]
            /\ extracted_answers = entries
            /\ pattern_analysis = <<>>
            /\ concept_report = <<>>
            /\ rubric = EmptyRubric
            /\ rubric_status = "not_run"
            /\ pattern_report = <<>>
            /\ student_details = <<>>
            /\ log = [i \in 1..n |->
                        Event("extract_request", i, ContextOf(SubSeq(entries, 1, i - 1)))]
            /\ error = NoError

NextSynth == SynthesizePatterns

SpecSynth == InitSynth /\ [][NextSynth]_vars

\* ==================================================================== claims
\* positions in log of the extraction requests
ExtractRequests == {k \in 1..Len(log) : log[k].ev = "extract_request"}

\* the documents the context of the request at log position k was built from
ContextDocs(k) == [i \in 1..Len(log[k].ctx) |-> log[k].ctx[i].doc]

\* the analyses of documents before position p, in order
ExtractedBefore(p) == SelectSeq(extracted_answers, LAMBDA e : e.doc < p)

\* C1, as stated: the rolling context in the request of the document at
\* position p is built only from the documents at positions p-3, p-2, p-1.
C1_OnlyThreePreceding ==
    \A k \in ExtractRequests :
        \A i \in 1..Len(log[k].ctx) :
            ContextDocs(k)[i] \in (log[k].arg - ContextWindow)..(log[k].arg - 1)

\* C1, amended: the rolling context in the request of the document at
\* position p is built from exactly the (at most 3) most recent documents
\* before p whose extraction succeeded, in document order, and from no other
\* document; these are p-3, p-2, p-1 when all three were extracted.
C1_ContextFromLastThreeExtracted ==
    \A k \in ExtractRequests :
        LET p == log[k].arg
            recent == LastN(ExtractedBefore(p), ContextWindow)
        IN  /\ log[k].ctx = [i \in 1..Len(recent) |-> ContextBlock(recent[i])]
            /\ \A i \in 1..Len(log[k].ctx) : ContextDocs(k)[i] < p
            /\ (\A d \in (p - ContextWindow)..(p - 1) :
                    d >= 1 /\ \E j \in 1..Len(extracted_answers) : extracted_answers[j].doc = d)
               => ContextDocs(k) = [i \in 1..ContextWindow |-> p - ContextWindow - 1 + i]

\* a fifth (or later) document whose request carries the three documents
\* before it and leaves out an earlier analysis
C1_Witness ==
    \E k \in ExtractRequests :
        /\ Len(ExtractedBefore(log[k].arg)) > ContextWindow
        /\ Len(log[k].ctx) = ContextWindow
        /\ ContextDocs(k)[1] = log[k].arg - ContextWindow

RequestsFor(lg, d) == Cardinality({k \in 1..Len(lg) : lg[k].ev = "extract_request" /\ lg[k].arg = d})

\* C2: a step in which extract_answers_from_document returns None (no client,
\* the call raised, the response did not parse) leaves extracted_answers as it
\* was, has sent at most one request for that document, and moves the loop to
\* the next document (to the synthesis after the last one); no document ever
\* gets a second request.
C2_FailedExtractionSkipped ==
    /\ [](\A d \in 1..Len(documents) : RequestsFor(log, d) <= 1)
    /\ [][(analysis' # analysis /\ analysis'.result = "None") =>
            /\ extracted_answers' = extracted_answers
            /\ analysis'.doc = doc_index
            /\ RequestsFor(log', doc_index) = (IF analysis'.cause = "client" THEN 0 ELSE 1)
            /\ Len(log') <= Len(log) + 1
            /\ doc_index' = doc_index + 1
            /\ pc' = IF doc_index < Len(documents) THEN "analyze" ELSE "synth"]_vars

\* a document in the middle of the batch was skipped after an unparseable
\* response, with earlier analyses kept and the loop going on
C2_Witness ==
    /\ analysis.result = "None"
    /\ analysis.cause = "badjson"
    /\ pc = "analyze"
    /\ doc_index <= Len(documents)
    /\ Len(extracted_answers) >= 1
    /\ RequestsFor(log, analysis.doc) = 1

\* C3, as stated: no extraction response, however shaped, makes an exception
\* leave extract_answers_from_document, synthesize_patterns, generate_rubric
\* or the tables of export_reports and end the run.
C3_MalformedResponsesNeverAbort ==
    ~(/\ pc = "crashed"
      /\ \/ error.at \in {"extract_answers_from_document", "synthesize_patterns",
                          "generate_rubric"}
         \/ error.at = "export_reports" /\ error.type = "TypeError")

\* the files of the given numbers written in full
FilesDone == {log[k].arg : k \in {j \in 1..Len(log) : log[j].ev = "file"}}

\* C4, as stated: after a failed generate_rubric (no client, service error,
\* malformed JSON) the rubric is still empty, and export_reports writes all
\* four files without raising, whatever the rubric holds.
C4_RubricFailureTolerated ==
    /\ rubric_status \in {"no_client", "raise", "badjson"} => rubric = EmptyRubric
    /\ error.at # "export_reports"
    /\ pc = "done" => FilesDone = 1..4

\* the files fs holds that load_documents can read
Readable(tree) == {i \in 1..Len(tree.files) : tree.files[i] = "ok"}

\* one of the conditions that end main early holds of the tree
TerminalCondition ==
    \/ ~fs.exists
    \/ ~ValidFolderStructure(fs)
    \/ Readable(fs) = {}

\* C5: when the path does not exist, the folder validation fails or no
\* document can be loaded, main never gets past loading: it returns, and at
\* that point no request has been sent and no file written; main returns
\* early in these cases only.
C5_TerminalBeforeEffects ==
    /\ TerminalCondition => pc \in {"start", "validate", "load", "returned"} /\ log = <<>>
    /\ pc = "returned" => TerminalCondition /\ log = <<>>

\* main returned because loading a valid tree produced no document
C5_Witness ==
    /\ pc = "returned"
    /\ fs.exists
    /\ ValidFolderStructure(fs)
    /\ Len(fs.files) > 0
    /\ file_index > Len(DocxFiles(fs))
    /\ documents = <<>>

Positions(ev) == {k \in 1..Len(log) : log[k].ev = ev}

\* C6, as stated: a run that got past loading and ended has called
\* generate_rubric exactly once; at most one rubric request is sent; the call
\* comes after synthesize_patterns completed all 3 questions and before files
\* 3 and 4 are written.
C6_RubricExactlyOnce ==
    /\ pc \in {"done", "crashed"} => Cardinality(Positions("generate_rubric")) = 1
    /\ Cardinality(Positions("rubric_request")) <= 1
    /\ \A k \in Positions("generate_rubric") :
          \E j \in 1..(k - 1) : log[j].ev = "synthesize" /\ log[j].arg = NumQuestions
    /\ \A k \in Positions("file") \cup Positions("partial_file") :
          log[k].arg \in {3, 4} => \E j \in 1..(k - 1) : log[j].ev = "generate_rubric"

\* the mentions of concepts under question q: <<i, j>> is item j of the
\* concept list of the i-th extracted answer
ConceptList(q, i) ==
    LET a == extracted_answers[i].answers[QKey(q)] IN
    IF IsDict(a) /\ a.f.conceptos_mencionados.t = "list"
    THEN a.f.conceptos_mencionados.l ELSE <<>>

Mentions(q) ==
    UNION {{<<i, j>> : j \in 1..Len(ConceptList(q, i))} : i \in 1..Len(extracted_answers)}

ConceptAt(q, m) == ConceptList(q, m[1])[m[2]]

ConceptsOf(q) == {ConceptAt(q, m) : m \in Mentions(q)}

MentionsOf(q, c) == {m \in Mentions(q) : ConceptAt(q, m) = c}

\* the answers to question q that list concept c
AnswersWith(q, c) == {m[1] : m \in MentionsOf(q, c)}

Earlier(m1, m2) == m1[1] < m2[1] \/ (m1[1] = m2[1] /\ m1[2] < m2[2])

FirstMention(q, c) ==
    CHOOSE m \in MentionsOf(q, c) : \A m2 \in MentionsOf(q, c) : m2 = m \/ Earlier(m, m2)

\* c1 ranks before c2: mentioned more often, or as often and seen first
RanksBefore(q, c1, c2) ==
    \/ Cardinality(MentionsOf(q, c1)) > Cardinality(MentionsOf(q, c2))
    \/ /\ Cardinality(MentionsOf(q, c1)) = Cardinality(MentionsOf(q, c2))
       /\ Earlier(FirstMention(q, c1), FirstMention(q, c2))

\* C7: conceptos_frecuentes of each question holds at most 10 concepts, the
\* 10 of highest frequency (all when there are fewer), by descending
\* frequency, equal frequencies in the order of first occurrence across the
\* documents and within a document's list.
C7_TopTenStableRanking ==
    \A q \in DOMAIN pattern_analysis :
        LET cf == pattern_analysis[q].conceptos_frecuentes
            kept == {cf[i].concept : i \in 1..Len(cf)}
        IN  /\ Len(cf) = Min(TopConcepts, Cardinality(ConceptsOf(q)))
            /\ kept \subseteq ConceptsOf(q)
            /\ \A i \in 1..Len(cf) : cf[i].freq = Cardinality(MentionsOf(q, cf[i].concept))
            /\ \A i, j \in 1..Len(cf) : i < j => RanksBefore(q, cf[i].concept, cf[j].concept)
            /\ \A c \in ConceptsOf(q) \ kept :
                  \A i \in 1..Len(cf) : RanksBefore(q, cf[i].concept, c)

\* more than 10 concepts under one question, unequal frequencies among the
\* 10 kept, a tie among them and a tie across the cut
C7_Witness ==
    \E q \in DOMAIN pattern_analysis :
        LET cf == pattern_analysis[q].conceptos_frecuentes IN
        /\ pc = "rubric"
        /\ Cardinality(ConceptsOf(q)) > TopConcepts
        /\ Len(cf) = TopConcepts
        /\ cf[1].freq > cf[TopConcepts].freq
        /\ \E i \in 1..(TopConcepts - 1) : cf[i].freq = cf[i + 1].freq /\ cf[i].freq > 1
        /\ \E c \in ConceptsOf(q) :
              /\ \A i \in 1..Len(cf) : cf[i].concept # c
              /\ Cardinality(MentionsOf(q, c)) = cf[TopConcepts].freq

\* the printed percentage p (in tenths) is 100 * freq / n to one decimal
IsPercentage(p, freq, n) ==
    /\ 2 * (p * n - 1000 * freq) <= n
    /\ 2 * (1000 * freq - p * n) <= n

\* C8, as stated: a concept reported for a question is reported with the
\* number k of answers it appears in and the percentage 100*k/n, n being the
\* total answer count recorded for the question.
C8_FrequencyIsAnswerCount ==
    \A q \in DOMAIN concept_report :
        \A i \in 1..Len(concept_report[q]) :
            LET line == concept_report[q][i]
                k == Cardinality(AnswersWith(q, line.concept))
            IN  /\ line.freq = k
                /\ IsPercentage(line.percentage, k, pattern_analysis[q].total_respuestas)

\* the extracted answers whose well-formed analysis of q carries the label
Carrying(q, label) ==
    {i \in 1..Len(extracted_answers) :
        /\ IsDict(extracted_answers[i].answers[QKey(q)])
        /\ QualityLabel(extracted_answers[i].answers[QKey(q)]) = label}

LabelsCarried(q) ==
    {QualityLabel(extracted_answers[i].answers[QKey(q)]) :
        i \in {j \in 1..Len(extracted_answers) : IsDict(extracted_answers[j].answers[QKey(q)])}}

\* C9: distribucion_calidad of each question maps every label carried by a
\* well-formed answer to the number of answers carrying it (and holds no
\* other label), and the row export_reports writes for the question shows
\* these numbers for alta, media and baja, 0 for a label nobody carries.
C9_QualityDistribution ==
    /\ \A q \in DOMAIN pattern_analysis :
          LET dist == pattern_analysis[q].distribucion_calidad IN
          /\ DOMAIN dist = LabelsCarried(q)
          /\ \A label \in DOMAIN dist : dist[label] = Cardinality(Carrying(q, label))
    /\ \A q \in DOMAIN pattern_report :
          /\ pattern_report[q].CalidadAlta = Cardinality(Carrying(q, "alta"))
          /\ pattern_report[q].CalidadMedia = Cardinality(Carrying(q, "media"))
          /\ pattern_report[q].CalidadBaja = Cardinality(Carrying(q, "baja"))
    /\ pc = "done" => DOMAIN pattern_report = Questions

\* two students, question 1 rated alta for one and media for the other
C9_Witness ==
    /\ pc = "done"
    /\ Len(extracted_answers) = 2
    /\ extracted_answers[1].student_name # extracted_answers[2].student_name
    /\ DOMAIN pattern_analysis[1].distribucion_calidad = {"alta", "media"}
    /\ pattern_analysis[1].distribucion_calidad["alta"] = 1
    /\ pattern_analysis[1].distribucion_calidad["media"] = 1
    /\ pattern_report[1].CalidadAlta = 1
    /\ pattern_report[1].CalidadMedia = 1
    /\ pattern_report[1].CalidadBaja = 0

\* the loop of load_documents has run to its end
LoadFinished ==
    \/ pc \in {"analyze", "synth", "rubric", "export", "done", "crashed"}
    \/ pc = "returned" /\ fs.exists /\ ValidFolderStructure(fs)

NotLock(tree) == {i \in 1..Len(tree.files) : tree.files[i] # "lock"}

Corrupt(tree) == {i \in 1..Len(tree.files) : tree.files[i] = "corrupt"}

\* the files among the first k of the tree that are neither lock files nor
\* corrupt, in order
RECURSIVE ReadableUpTo(_, _)
ReadableUpTo(tree, k) ==
    IF k = 0 THEN <<>>
    ELSE ReadableUpTo(tree, k - 1) \o (IF tree.files[k] = "ok" THEN <<k>> ELSE <<>>)

\* C10: self.documents always holds one entry per readable file among the
\* files the loop has passed, in discovery order; the loop passes every file
\* that is no lock file, so that with N such files of which E are corrupt it
\* ends with N - E entries.
C10_LoadCountsReadable ==
    LET passed == IF file_index > Len(DocxFiles(fs)) THEN Len(fs.files)
                  ELSE DocxFiles(fs)[file_index] - 1
        expected == ReadableUpTo(fs, passed)
    IN  /\ Len(documents) = Len(expected)
        /\ \A i \in 1..Len(expected) :
              /\ documents[i].filename = expected[i]
              /\ documents[i].student_name = ParentName(fs, expected[i])
        /\ LoadFinished =>
              /\ file_index = Cardinality(NotLock(fs)) + 1
              /\ Len(documents) = Cardinality(NotLock(fs)) - Cardinality(Corrupt(fs))

\* loading went on after a corrupt file and kept the entry loaded before it
C10_Witness ==
    /\ pc = "analyze"
    /\ Len(documents) >= 2
    /\ \E i, j, k \in 1..Len(fs.files) :
          /\ i < j /\ j < k
          /\ fs.files[i] = "ok" /\ fs.files[j] = "corrupt" /\ fs.files[k] = "ok"

\* ---------------------------------------------------------------- C11
\* the object of question q in entry e has no key_points
OmitsKeyPoints(e, q) ==
    IsDict(e.answers[QKey(q)]) /\ e.answers[QKey(q)].f.key_points.t = "absent"

\* the shapes, other than an omitted key_points, that a stage reading the
\* answers does not expect: a question that is not an object, a non-string
\* element in key_points or conceptos_mencionados, a list as quality label, a
\* number as the text of an answer rated alta
OtherwiseMalformed(e) ==
    \E q \in Questions :
        LET a == e.answers[QKey(q)] IN
        \/ a.t \notin {"dict", "absent"}
        \/ /\ a.t = "dict"
           /\ \/ a.f.key_points.t = "list" /\
                 \E j \in 1..Len(a.f.key_points.l) : a.f.key_points.l[j] \in NonStrItems
              \/ a.f.conceptos_mencionados.t = "list" /\
                 \E j \in 1..Len(a.f.conceptos_mencionados.l) :
                     a.f.conceptos_mencionados.l[j] \in NonStrItems
              \/ a.f.calidad_estimada.t = "list"
              \/ a.f.calidad_estimada = Alta /\ a.f.respuesta_completa.t = "num"

\* the lines rendered for question q in a block of a request's context
LinesFor(block, q) == SelectSeq(block.lines, LAMBDA ln : ln.key = QKey(q))

\* the rows of the per-student detail table for document d and question q
RowsFor(d, q) == SelectSeq(student_details, LAMBDA row : row.doc = d /\ row.Pregunta = q)

\* the stages that read the extracted answers
AnswerReaders == {"extract_answers_from_document", "synthesize_patterns", "generate_rubric"}

\* C11: an answer object that omits key_points makes no stage raise: an
\* uncaught exception of the context construction, of synthesize_patterns, of
\* the example collection or of the detail rows occurs only when some entry is
\* malformed in another way; in every later request the question gets the
\* placeholder line; and once the detail table is written, the row of that
\* student and question reports 0 key points.
C11_OmittedKeyPointsTolerated ==
    /\ (/\ pc = "crashed"
        /\ \/ error.at \in AnswerReaders
           \/ error.at = "export_reports" /\ error.type = "TypeError")
       => \E i \in 1..Len(extracted_answers) : OtherwiseMalformed(extracted_answers[i])
    /\ \A k \in ExtractRequests : \A b \in 1..Len(log[k].ctx) :
          \A i \in 1..Len(extracted_answers) : \A q \in Questions :
              (/\ extracted_answers[i].doc = log[k].ctx[b].doc
               /\ OmitsKeyPoints(extracted_answers[i], q))
              => /\ Len(LinesFor(log[k].ctx[b], q)) = 1
                 /\ LinesFor(log[k].ctx[b], q)[1].kind = "placeholder"
    /\ 2 \in FilesDone =>
          \A i \in 1..Len(extracted_answers) : \A q \in Questions :
              OmitsKeyPoints(extracted_answers[i], q)
              => /\ Len(RowsFor(extracted_answers[i].doc, q)) = 1
                 /\ RowsFor(extracted_answers[i].doc, q)[1].NumPuntosClave = 0

\* a finished run in which an entry without key_points for question 3 was in
\* the context of a later request, was synthesized and has its detail row
C11_Witness ==
    /\ pc = "done"
    /\ \E i \in 1..Len(extracted_answers) :
          /\ OmitsKeyPoints(extracted_answers[i], 3)
          /\ \E k \in ExtractRequests : \E b \in 1..Len(log[k].ctx) :
                /\ log[k].ctx[b].doc = extracted_answers[i].doc
                /\ log[k].arg > extracted_answers[i].doc
          /\ pattern_analysis[3].total_respuestas = Len(extracted_answers)
          /\ Len(RowsFor(extracted_answers[i].doc, 3)) = 1

\* ---------------------------------------------------------------- C12
\* the positions of the documents extracted_answers holds, in its order
ExtractedDocs == [i \in 1..Len(extracted_answers) |-> extracted_answers[i].doc]

\* extracted_answers holds documents processed so far, each once, in document
\* order, each entry with the student of its document
OrderedSubsequence ==
    /\ \A i \in 1..Len(extracted_answers) :
          /\ ExtractedDocs[i] \in 1..(doc_index - 1)
          /\ extracted_answers[i].student_name = documents[ExtractedDocs[i]].student_name
    /\ \A i, j \in 1..Len(extracted_answers) : i < j => ExtractedDocs[i] < ExtractedDocs[j]

\* the requests sent so far are for documents in document order, one each,
\* and each document before them has been processed
RequestsInOrder ==
    /\ \A k \in ExtractRequests : log[k].arg < doc_index
    /\ \A k, l \in ExtractRequests : k < l => log[k].arg < log[l].arg
    /\ pc = "analyze" => analysis.doc = doc_index - 1

\* a step changes extracted_answers only by appending the analysis of the
\* document it processed, and does so whenever that extraction succeeded
AppendOnly ==
    /\ \/ extracted_answers' = extracted_answers
       \/ /\ Len(extracted_answers') = Len(extracted_answers) + 1
          /\ SubSeq(extracted_answers', 1, Len(extracted_answers)) = extracted_answers
          /\ extracted_answers'[Len(extracted_answers')].doc = doc_index
          /\ analysis'.doc = doc_index /\ analysis'.result = "dict"
    /\ (analysis' # analysis /\ analysis'.result = "dict")
       => Len(extracted_answers') = Len(extracted_answers) + 1

\* a step that sends a request sends it for the document at doc_index, after
\* the extraction of the document before it has returned its result
RequestAfterEarlierReturned ==
    Len(log') > Len(log) /\ log'[Len(log')].ev = "extract_request"
    => /\ log'[Len(log')].arg = doc_index
       /\ analysis.doc = doc_index - 1
       /\ \A k \in ExtractRequests : log[k].arg < doc_index

\* C12: throughout analyze_patterns_iteratively extracted_answers is an
\* order-preserving subsequence of the documents processed so far, it changes
\* only by an append at its end (nothing removed, reordered or replaced), and
\* the request of a document is sent only after the extraction of every
\* earlier document has returned.
C12_AppendOnlyInDocumentOrder ==
    /\ [](OrderedSubsequence /\ RequestsInOrder)
    /\ [][AppendOnly /\ RequestAfterEarlierReturned]_vars

\* five documents processed, the second and fourth skipped
C12_Witness ==
    /\ doc_index = 6
    /\ ExtractedDocs = <<1, 3, 5>>
    /\ Cardinality(ExtractRequests) = 5

\* ---------------------------------------------------------------- C13
\* the line the statement prescribes for an answer under a question key:
\* its kind, the key points shown and the length of the summary
PrescribedLine(q, a) ==
    IF IsDict(a) /\ a.f.key_points.t = "list" /\ Len(a.f.key_points.l) > 0
    THEN [key |-> QKey(q), kind |-> "points",
          items |-> Take(a.f.key_points.l, KeyPointsShown), n |-> 0]
    ELSE IF IsDict(a) /\ a.f.key_points.t = "str"
    THEN [key |-> QKey(q), kind |-> "summary", items |-> <<>>,
          n |-> Min(a.f.key_points.n, SummaryChars)]
    ELSE [key |-> QKey(q), kind |-> "placeholder", items |-> <<>>, n |-> 0]

\* C13, as stated: in the context of every request, at most 3 earlier
\* documents are included, and every question of an included document has
\* exactly one line: its first 3 key points when key_points is a non-empty
\* list, else a summary of at most 200 characters when key_points is text,
\* else the placeholder.
C13_OneLinePerQuestion ==
    \A k \in ExtractRequests :
        /\ Len(log[k].ctx) <= ContextWindow
        /\ \A b \in 1..Len(log[k].ctx) : \A i \in 1..Len(extracted_answers) :
              extracted_answers[i].doc = log[k].ctx[b].doc
              => \A q \in Questions :
                    HasKey(extracted_answers[i].answers, QKey(q))
                    => LinesFor(log[k].ctx[b], q)
                       = <<PrescribedLine(q, extracted_answers[i].answers[QKey(q)])>>

\* ---------------------------------------------------------------- C14
\* synthesize_patterns has been called
Synthesized == Positions("synthesize") # {}

\* C14: synthesize_patterns never raises ZeroDivisionError: a percentage is
\* reported only when extracted_answers is non-empty; and when every
\* extraction failed, synthesis completes with an entry for each of the 3
\* questions holding total_respuestas 0, no concepts, no key points and an
\* empty quality distribution.
C14_NoDivisionByZero ==
    /\ error.type # "ZeroDivisionError"
    /\ \A q \in DOMAIN concept_report :
          Len(concept_report[q]) > 0 => Len(extracted_answers) > 0
    /\ (Synthesized /\ Len(extracted_answers) = 0)
       => /\ error.at # "synthesize_patterns"
          /\ DOMAIN pattern_analysis = Questions
          /\ \A q \in Questions :
                /\ pattern_analysis[q].pregunta = q
                /\ pattern_analysis[q].total_respuestas = 0
                /\ pattern_analysis[q].conceptos_frecuentes = <<>>
                /\ pattern_analysis[q].puntos_clave_comunes = <<>>
                /\ DOMAIN pattern_analysis[q].distribucion_calidad = {}
                /\ concept_report[q] = <<>>

\* a finished run over several documents, each of them requested, none of
\* them extracted
C14_Witness ==
    /\ pc = "done"
    /\ Len(documents) >= 2
    /\ Cardinality(ExtractRequests) = Len(documents)
    /\ Len(extracted_answers) = 0
    /\ DOMAIN pattern_analysis = Questions
    /\ \A q \in DOMAIN pattern_report : pattern_report[q].TotalRespuestas = 0

====
